---- MODULE Spec2Model ----
(***************************************************************************)
(* A model of the line-existence query service.                            *)
(*                                                                         *)
(*   server.py     Server.__init__, read_file, handle_client,              *)
(*                 process_query, start_server                             *)
(*   benchmark.py  linear_search, binary_search, hash_table_search,        *)
(*                 boyer_moore_search, kmp_search, benchmark_algorithms    *)
(*                                                                         *)
(* Text is a sequence of one-character strings; "NL" is the newline, "SP"  *)
(* the space and "BAD" a byte that is not valid UTF-8.                     *)
(***************************************************************************)
EXTENDS Integers, Sequences, FiniteSets, TLC

\* ------------------------------------------------------------------ bounds
\* connections that arrive in one behaviour
MaxConns == 2

\* longest line and query, and most lines, given to the equality strategies
MaxLen == 2
MaxLines == 2

\* longest line, longest pattern and most lines given to the substring
\* strategies
MaxTextLen == 4
MaxPatternLen == 3
MaxTextLines == 2

\* longest line and query, and most lines, given to a strategy that is
\* called twice
MaxRepeatLen == 3
MaxRepeatLines == 2

\* longest line and query, and most lines, of the datasets with duplicated
\* lines
MaxDupLen == 1
MaxDupLines == 3

\* server.py:109  conn.recv(1024)
RecvBufSize == 1024

\* ------------------------------------------------------------ text helpers
Whitespace == {"SP", "NL"}

Range(s) == {s[k] : k \in 1..Len(s)}

Min(a, b) == IF a <= b THEN a ELSE b

\* bytes.decode(): UTF-8; an invalid byte raises UnicodeDecodeError, an
\* ASCII byte decodes to the character of the same code.
decode(bytes) ==
  IF "BAD" \in Range(bytes)
    THEN [ok |-> FALSE, text |-> << >>]
    ELSE [ok |-> TRUE, text |-> [k \in 1..Len(bytes) |-> bytes[k]]]

RECURSIVE lstrip(_)
lstrip(s) ==
  IF s # << >> /\ Head(s) \in Whitespace THEN lstrip(Tail(s)) ELSE s

RECURSIVE rstrip(_)
rstrip(s) ==
  IF s # << >> /\ s[Len(s)] \in Whitespace
    THEN rstrip(SubSeq(s, 1, Len(s) - 1))
    ELSE s

\* str.strip(): leading and trailing whitespace removed
strip(s) == rstrip(lstrip(s))

\* position of the first newline of s, 0 when there is none
FirstNL(s) ==
  IF \E k \in 1..Len(s) : s[k] = "NL"
    THEN CHOOSE k \in 1..Len(s) : s[k] = "NL" /\ \A h \in 1..(k - 1) : s[h] # "NL"
    ELSE 0

\* str.splitlines(): no trailing empty line after a final newline
RECURSIVE splitlines(_)
splitlines(s) ==
  IF s = << >> THEN << >>
  ELSE IF FirstNL(s) = 0 THEN << s >>
  ELSE << SubSeq(s, 1, FirstNL(s) - 1) >>
         \o splitlines(SubSeq(s, FirstNL(s) + 1, Len(s)))

\* the text of a file that holds the given lines, each ended by a newline
RECURSIVE FileText(_)
FileText(lines) ==
  IF lines = << >> THEN << >>
  ELSE Head(lines) \o << "NL" >> \o FileText(Tail(lines))

\* response.encode() + b"\n"
ResponseLine(response) == << response, "NL" >>

\* ------------------------------------------------------------ input sets
\* the dataset file on disk: absent, or a text
Missing == [exists |-> FALSE, text |-> << >>]
File(t) == [exists |-> TRUE, text |-> t]

FileTexts ==
  { << "a" >>,
    << "a", "b", "NL", "b", "NL" >> }

DiskStates == {Missing} \cup {File(t) : t \in FileTexts}

\* what a client writes on its connection (client.py, send_query)
RawQueries ==
  { << "a", "b", "NL" >>,
    << "SP", "a", "NL" >>,
    << "BAD" >> }

\* the peer address of the c-th connection
AddrOf(c) == << "10.0.0.1", 5000 + c >>

Conns == 1..MaxConns

VARIABLES
  \* ---- server.py
  ssl_enabled,     \* Server.ssl_enabled (0 or 1)
  reread_on_query, \* Server.reread_on_query (0 or 1)
  file_contents,   \* Server.file_contents: [loaded, lines]; not loaded is None
  disk,            \* the file at Server.file_path
  writer,          \* a process that is rewriting that file in place, if any
  reads,           \* history: the read_file calls made, by the constructor
                   \* (ctor) and by each handler thread (by)
  startup_disk,    \* history: the file as Server.__init__ read it (static mode)
  lpc,             \* where the main thread is: "accept", "spawn" in the loop of
                   \* start_server; "ctor_failed", "accept_raised" when an
                   \* exception has ended it
  conn,            \* start_server's local conn (0: unbound)
  addr,            \* start_server's local addr
  nconn,           \* connections that have reached the listening socket
  naccept,         \* connections accept() has returned
  sock,            \* per connection: what the client sent, what it got, close() calls
  threads,         \* the handler threads, in the order they were started
  \* ---- benchmark.py
  outcome,         \* where the call benchmark_algorithms(path, query) of __main__
                   \* is, and how it ended
  algorithms,      \* the strategies the harness drives (the algorithms dict)
  bench_contents,  \* the list object file_contents handed to every strategy
  loaded_contents, \* history: that list as it was loaded
  query,           \* the query handed to every strategy
  call,            \* the frame of the strategy that is running
  results,         \* what each strategy returned or raised
  earlier          \* history: what the previous call of each strategy returned
                   \* or raised, when it has been called again

svars == << ssl_enabled, reread_on_query, writer, reads, file_contents, disk,
            startup_disk, lpc, conn, addr, nconn, naccept, sock, threads >>

bvars == << outcome, algorithms, bench_contents, loaded_contents, query, call, results,
           earlier >>

vars == << svars, bvars >>

\* ------------------------------------------------------------- server.py
\* Server.read_file: open(path).read().splitlines(); a missing or unreadable
\* file raises
read_file(d) ==
  IF d.exists
    THEN [ok |-> TRUE, lines |-> splitlines(d.text)]
    ELSE [ok |-> FALSE, lines |-> << >>]

\* "query in file_contents" on a list: equality with some element
ListContains(lines, q) == \E k \in 1..Len(lines) : lines[k] = q

\* s occurs in line as a contiguous substring
Contains(line, s) ==
  \E k \in 0..(Len(line) - Len(s)) : SubSeq(line, k + 1, k + Len(s)) = s

\* process_query with substring matching instead of line equality
process_query_substring(reread, cached, d, q) ==
  LET loaded == IF reread # 0 THEN read_file(d) ELSE [ok |-> TRUE, lines |-> cached.lines]
  IN  IF ~loaded.ok
        THEN [ok |-> FALSE, response |-> ""]
        ELSE [ok |-> TRUE,
              response |-> IF \E k \in 1..Len(loaded.lines) : Contains(loaded.lines[k], q)
                             THEN "STRING EXISTS"
                             ELSE "STRING NOT FOUND"]

\* Server.process_query: [ok, response]; not ok when read_file raised
process_query(reread, cached, d, q) ==
  LET loaded == IF reread # 0 THEN read_file(d) ELSE [ok |-> TRUE, lines |-> cached.lines]
  IN  IF ~loaded.ok
        THEN [ok |-> FALSE, response |-> ""]
        ELSE [ok |-> TRUE,
              response |-> IF ListContains(loaded.lines, q)
                             THEN "STRING EXISTS"
                             ELSE "STRING NOT FOUND"]

\* nobody is writing the dataset file
NoWriter == [active |-> FALSE, old |-> Missing, rest |-> << >>]

NoSock == [raw |-> << >>, arrived |-> 0, peer_closed |-> FALSE,
           out |-> << >>, closes |-> 0]

NewThread(c, a) ==
  [conn |-> c, addr |-> a, pc |-> "recv", data |-> << >>, response |-> "",
   logged |-> "none"]

\* Server.__init__ with the dataset file d on disk: in static mode the file
\* is read once; a failing read leaves no Server (the exception leaves the
\* constructor)
ServerInitOn(d) ==
  /\ reread_on_query \in {0, 1}
  /\ disk = d
  /\ writer = NoWriter
  /\ reads = [ctor |-> IF reread_on_query = 0 THEN 1 ELSE 0, by |-> [t \in Conns |-> 0]]
  /\ startup_disk = IF reread_on_query = 0 THEN disk ELSE Missing
  /\ file_contents =
       IF reread_on_query = 0 /\ read_file(disk).ok
         THEN [loaded |-> TRUE, lines |-> read_file(disk).lines]
         ELSE [loaded |-> FALSE, lines |-> << >>]
  /\ lpc = IF reread_on_query = 0 /\ ~read_file(disk).ok THEN "ctor_failed" ELSE "accept"
  /\ conn = 0
  /\ addr = << >>
  /\ nconn = 0
  /\ naccept = 0
  /\ sock = [c \in Conns |-> NoSock]
  /\ threads = << >>

\* a Server that listens on plain TCP
ServerInit ==
  /\ ssl_enabled = 0
  /\ \E d \in DiskStates : ServerInitOn(d)

Serving == lpc \in {"accept", "spawn"}

\* ---- the environment
\* the dataset file is rewritten, created or removed out-of-band while the
\* server runs
Rewrite(d) ==
  /\ Serving
  /\ ~writer.active
  /\ d # disk
  /\ disk' = d
  /\ UNCHANGED << ssl_enabled, reread_on_query, writer, reads, file_contents,
                  startup_disk, lpc, conn, addr, nconn, naccept, sock,
                  threads >>
  /\ UNCHANGED bvars

\* the dataset file is rewritten in place: the writer opens it for writing,
\* which truncates it, and will write the text t; old is the file it replaces
WriteOpen(t) ==
  /\ Serving
  /\ ~writer.active
  /\ disk' = File(<< >>)
  /\ writer' = [active |-> TRUE, old |-> disk, rest |-> t]
  /\ UNCHANGED << ssl_enabled, reread_on_query, reads, file_contents,
                  startup_disk, lpc, conn, addr, nconn, naccept, sock,
                  threads >>
  /\ UNCHANGED bvars

\* the writer writes its next line (the rest, when no newline is left) and
\* closes the file after the last one
WriteChunk ==
  /\ Serving
  /\ writer.active
  /\ LET n == IF FirstNL(writer.rest) = 0 THEN Len(writer.rest) ELSE FirstNL(writer.rest)
     IN  /\ disk' = File(disk.text \o SubSeq(writer.rest, 1, n))
         /\ writer' = IF n = Len(writer.rest)
                         THEN NoWriter
                         ELSE [writer EXCEPT !.rest = SubSeq(@, n + 1, Len(@))]
  /\ UNCHANGED << ssl_enabled, reread_on_query, reads, file_contents,
                  startup_disk, lpc, conn, addr, nconn, naccept, sock,
                  threads >>
  /\ UNCHANGED bvars

\* a client connects: socket.create_connection
Connect ==
  /\ Serving
  /\ nconn < MaxConns
  /\ nconn' = nconn + 1
  /\ UNCHANGED << ssl_enabled, reread_on_query, writer, reads, file_contents,
                  disk, startup_disk, lpc, conn, addr, naccept, sock, threads >>
  /\ UNCHANGED bvars

\* conn.sendall(query.encode()) in the client: the handler's recv is woken
\* when the first k bytes of the query raw have arrived
ClientSend(c, raw, k) ==
  /\ \E t \in 1..Len(threads) : threads[t].conn = c /\ threads[t].pc = "recv"
  /\ sock[c].arrived = 0 /\ ~sock[c].peer_closed
  /\ k \in 1..Len(raw)
  /\ sock' = [sock EXCEPT ![c].raw = raw, ![c].arrived = k]
  /\ UNCHANGED << ssl_enabled, reread_on_query, writer, reads, file_contents,
                  disk, startup_disk, lpc, conn, addr, nconn, naccept,
                  threads >>
  /\ UNCHANGED bvars

\* the peer closes without having sent anything
ClientClose(c) ==
  /\ \E t \in 1..Len(threads) : threads[t].conn = c /\ threads[t].pc = "recv"
  /\ sock[c].arrived = 0 /\ ~sock[c].peer_closed
  /\ sock' = [sock EXCEPT ![c].peer_closed = TRUE]
  /\ UNCHANGED << ssl_enabled, reread_on_query, writer, reads, file_contents,
                  disk, startup_disk, lpc, conn, addr, nconn, naccept,
                  threads >>
  /\ UNCHANGED bvars

\* ---- Server.start_server, the accept loop
\* conn, addr = server_sock.accept(): the oldest connection of the backlog
Accept ==
  /\ lpc = "accept"
  /\ naccept < nconn
  /\ conn' = naccept + 1
  /\ addr' = AddrOf(naccept + 1)
  /\ naccept' = naccept + 1
  /\ lpc' = "spawn"
  /\ UNCHANGED << ssl_enabled, reread_on_query, writer, reads, file_contents,
                  disk, startup_disk, nconn, sock, threads >>
  /\ UNCHANGED bvars

\* server_sock.accept() raises. With ssl_enabled the listening socket is the
\* wrapped one, whose accept() performs the TLS handshake with the peer and
\* raises ssl.SSLError when it fails. Nothing in the while loop catches: the
\* exception leaves start_server and the main thread ends.
AcceptRaise ==
  /\ lpc = "accept"
  /\ naccept < nconn
  /\ ssl_enabled # 0
  /\ lpc' = "accept_raised"
  /\ UNCHANGED << ssl_enabled, reread_on_query, writer, reads, file_contents,
                  disk, startup_disk, conn, addr, nconn, naccept, sock,
                  threads >>
  /\ UNCHANGED bvars

\* start_server joining the previous handler before it starts the next one
StartThreadJoined ==
  /\ lpc = "spawn"
  /\ \A t \in 1..Len(threads) : threads[t].pc = "done"
  /\ threads' = Append(threads, NewThread(conn, addr))
  /\ lpc' = "accept"
  /\ UNCHANGED << ssl_enabled, reread_on_query, writer, reads, file_contents,
                  disk, startup_disk, conn, addr, nconn, naccept, sock >>
  /\ UNCHANGED bvars

\* threading.Thread(target=self.handle_client, args=(conn, addr)).start()
StartThread ==
  /\ lpc = "spawn"
  /\ threads' = Append(threads, NewThread(conn, addr))
  /\ lpc' = "accept"
  /\ UNCHANGED << ssl_enabled, reread_on_query, writer, reads, file_contents,
                  disk, startup_disk, conn, addr, nconn, naccept, sock >>
  /\ UNCHANGED bvars

\* ---- Server.handle_client, one thread
Running(t) == t \in 1..Len(threads)

Goto(t, pc) == [threads EXCEPT ![t].pc = pc]

\* an exception leaves the try block: control is in the except clause, where
\* only addr and the exception are read (data and response are dead)
Raise(t) == [threads EXCEPT ![t].pc = "except", ![t].data = << >>, ![t].response = ""]

\* what recv(1024) returns: the bytes that have arrived, at most the buffer;
\* b"" when the peer has closed
Received(s) == SubSeq(s.raw, 1, Min(s.arrived, RecvBufSize))

\* data = conn.recv(1024).decode().strip(); blocks until bytes arrive or the
\* peer closes
Recv(t) ==
  /\ Running(t)
  /\ threads[t].pc = "recv"
  /\ LET s == sock[threads[t].conn]
     IN  /\ s.arrived > 0 \/ s.peer_closed
         /\ threads' =
              IF decode(Received(s)).ok
                THEN [threads EXCEPT ![t].pc = "process",
                                     ![t].data = strip(decode(Received(s)).text)]
                ELSE Raise(t)
         /\ sock' = [sock EXCEPT ![threads[t].conn].raw = << >>,
                                 ![threads[t].conn].arrived = 0]
  /\ UNCHANGED << ssl_enabled, reread_on_query, writer, reads, file_contents,
                  disk, startup_disk, lpc, conn, addr, nconn, naccept >>
  /\ UNCHANGED bvars

\* recv raises instead of returning bytes (connection reset, TLS read error)
RecvRaise(t) ==
  /\ Running(t)
  /\ threads[t].pc = "recv"
  /\ sock[threads[t].conn].arrived = 0 /\ ~sock[threads[t].conn].peer_closed
  /\ threads' = Raise(t)
  /\ UNCHANGED << ssl_enabled, reread_on_query, writer, reads, file_contents,
                  disk, startup_disk, lpc, conn, addr, nconn, naccept, sock >>
  /\ UNCHANGED bvars

\* process_query called with the reload flag ignored: always a fresh read
ProcessQueryAlwaysReread(t) ==
  /\ Running(t)
  /\ threads[t].pc = "process"
  /\ LET r == process_query(1, file_contents, disk, threads[t].data)
     IN  threads' =
           IF r.ok
             THEN [threads EXCEPT ![t].pc = "send", ![t].response = r.response]
             ELSE Raise(t)
  /\ reads' = [reads EXCEPT !.by[t] = @ + 1]
  /\ UNCHANGED << ssl_enabled, reread_on_query, writer, file_contents, disk,
                  startup_disk, lpc, conn, addr, nconn, naccept, sock >>
  /\ UNCHANGED bvars

\* process_query that reads the file a second time when the query was not
\* found in the first load
ProcessQueryReadAgain(t) ==
  /\ Running(t)
  /\ threads[t].pc = "process"
  /\ LET r == process_query(reread_on_query, file_contents, disk, threads[t].data)
     IN  /\ threads' =
              IF r.ok
                THEN [threads EXCEPT ![t].pc = "send", ![t].response = r.response]
                ELSE Raise(t)
         /\ reads' =
              IF reread_on_query = 0 THEN reads
              ELSE IF r.ok /\ r.response = "STRING NOT FOUND"
                THEN [reads EXCEPT !.by[t] = @ + 2]
              ELSE [reads EXCEPT !.by[t] = @ + 1]
  /\ UNCHANGED << ssl_enabled, reread_on_query, writer, file_contents, disk,
                  startup_disk, lpc, conn, addr, nconn, naccept, sock >>
  /\ UNCHANGED bvars

\* process_query keeping what it has just loaded in self.file_contents
ProcessQueryCaching(t) ==
  /\ Running(t)
  /\ threads[t].pc = "process"
  /\ LET r == process_query(reread_on_query, file_contents, disk, threads[t].data)
     IN  /\ threads' =
              IF r.ok
                THEN [threads EXCEPT ![t].pc = "send", ![t].response = r.response]
                ELSE Raise(t)
         /\ file_contents' =
              IF reread_on_query # 0 /\ r.ok
                THEN [loaded |-> TRUE, lines |-> read_file(disk).lines]
                ELSE file_contents
  /\ reads' = IF reread_on_query # 0 THEN [reads EXCEPT !.by[t] = @ + 1] ELSE reads
  /\ UNCHANGED << ssl_enabled, reread_on_query, writer, disk, startup_disk, lpc,
                  conn, addr, nconn, naccept, sock >>
  /\ UNCHANGED bvars

\* response = self.process_query(data)
ProcessQuery(t) ==
  /\ Running(t)
  /\ threads[t].pc = "process"
  /\ LET r == process_query(reread_on_query, file_contents, disk, threads[t].data)
     IN  threads' =
           IF r.ok
             THEN [threads EXCEPT ![t].pc = "send", ![t].response = r.response]
             ELSE Raise(t)
  /\ reads' = IF reread_on_query # 0 THEN [reads EXCEPT !.by[t] = @ + 1] ELSE reads
  /\ UNCHANGED << ssl_enabled, reread_on_query, writer, file_contents, disk,
                  startup_disk, lpc, conn, addr, nconn, naccept, sock >>
  /\ UNCHANGED bvars

\* handle_client as a loop: after the response it waits for the next query
\* of the same connection
SendallThenRecv(t) ==
  /\ Running(t)
  /\ threads[t].pc = "send"
  /\ sock' = [sock EXCEPT ![threads[t].conn].out =
                Append(@, ResponseLine(threads[t].response))]
  /\ threads' = Goto(t, "recv")
  /\ UNCHANGED << ssl_enabled, reread_on_query, writer, reads, file_contents,
                  disk, startup_disk, lpc, conn, addr, nconn, naccept >>
  /\ UNCHANGED bvars

\* conn.sendall(response.encode() + b"\n")
Sendall(t) ==
  /\ Running(t)
  /\ threads[t].pc = "send"
  /\ sock' = [sock EXCEPT ![threads[t].conn].out =
                Append(@, ResponseLine(threads[t].response))]
  /\ threads' = Goto(t, "log")
  /\ UNCHANGED << ssl_enabled, reread_on_query, writer, reads, file_contents,
                  disk, startup_disk, lpc, conn, addr, nconn, naccept >>
  /\ UNCHANGED bvars

\* sendall raises (the peer is gone): nothing is delivered
SendallRaise(t) ==
  /\ Running(t)
  /\ threads[t].pc = "send"
  /\ threads' = Raise(t)
  /\ UNCHANGED << ssl_enabled, reread_on_query, writer, reads, file_contents,
                  disk, startup_disk, lpc, conn, addr, nconn, naccept, sock >>
  /\ UNCHANGED bvars

\* self.log_query(data, addr, end_time - start_time); ok = FALSE: it raises.
\* Nothing reads data or response after this statement.
LogQuery(t, ok) ==
  /\ Running(t)
  /\ threads[t].pc = "log"
  /\ threads' =
       IF ok
         THEN [threads EXCEPT ![t].pc = "close", ![t].logged = "debug",
                              ![t].data = << >>, ![t].response = ""]
         ELSE Raise(t)
  /\ UNCHANGED << ssl_enabled, reread_on_query, writer, reads, file_contents,
                  disk, startup_disk, lpc, conn, addr, nconn, naccept, sock >>
  /\ UNCHANGED bvars

\* handle_client with conn.close() at the end of the try block instead of in
\* a finally clause: the exception path ends without closing
ExceptLogNoFinally(t) ==
  /\ Running(t)
  /\ threads[t].pc = "except"
  /\ threads' = [threads EXCEPT ![t].pc = "done", ![t].logged = "error"]
  /\ UNCHANGED << ssl_enabled, reread_on_query, writer, reads, file_contents,
                  disk, startup_disk, lpc, conn, addr, nconn, naccept, sock >>
  /\ UNCHANGED bvars

\* handle_client that starts again from recv after it has logged the error
ExceptLogRetry(t) ==
  /\ Running(t)
  /\ threads[t].pc = "except"
  /\ threads' = [threads EXCEPT ![t].pc = "recv", ![t].logged = "error"]
  /\ UNCHANGED << ssl_enabled, reread_on_query, writer, reads, file_contents, disk,
                  startup_disk, lpc, conn, addr, nconn, naccept, sock >>
  /\ UNCHANGED bvars

\* except Exception: logging.error(...); whether or not the logging call
\* itself raises, the finally clause runs next
ExceptLog(t) ==
  /\ Running(t)
  /\ threads[t].pc = "except"
  /\ threads' = [threads EXCEPT ![t].pc = "close", ![t].logged = "error"]
  /\ UNCHANGED << ssl_enabled, reread_on_query, writer, reads, file_contents,
                  disk, startup_disk, lpc, conn, addr, nconn, naccept, sock >>
  /\ UNCHANGED bvars

\* finally: conn.close(); the thread ends
Close(t) ==
  /\ Running(t)
  /\ threads[t].pc = "close"
  /\ sock' = [sock EXCEPT ![threads[t].conn].closes = @ + 1]
  /\ threads' = Goto(t, "done")
  /\ UNCHANGED << ssl_enabled, reread_on_query, writer, reads, file_contents,
                  disk, startup_disk, lpc, conn, addr, nconn, naccept >>
  /\ UNCHANGED bvars

\* ------------------------------------------------------------ benchmark.py
Alphabet == {"a", "b"}

\* the texts of at most n characters
Strs(n) == UNION {[1..k -> Alphabet] : k \in 0..n}

\* the lists of at most n elements of S
Lists(S, n) == UNION {[1..k -> S] : k \in 0..n}

Strategies ==
  {"linear_search", "binary_search", "hash_table_search", "kmp_search",
   "boyer_moore_search"}

EqualityStrategies == {"linear_search", "binary_search", "hash_table_search"}

SubstringStrategies == {"kmp_search", "boyer_moore_search"}

Max(a, b) == IF a >= b THEN a ELSE b

PyBool(b) == IF b THEN "True" ELSE "False"

\* Python's s[i]: i counts from 0, a negative i counts from the end, and an
\* i outside -len(s) .. len(s)-1 raises IndexError
InRange(s, i) == -Len(s) <= i /\ i < Len(s)

At(s, i) == IF i >= 0 THEN s[i + 1] ELSE s[Len(s) + i + 1]

\* the code point of a character
Ord(ch) ==
  CASE ch = "NL" -> 10
    [] ch = "SP" -> 32
    [] ch = "a" -> 97
    [] ch = "b" -> 98
    [] OTHER -> 255

\* s < t on Python strings: lexicographic by code point
RECURSIVE StrLess(_, _)
StrLess(s, t) ==
  IF t = << >> THEN FALSE
  ELSE IF s = << >> THEN TRUE
  ELSE IF Head(s) = Head(t) THEN StrLess(Tail(s), Tail(t))
  ELSE Ord(Head(s)) < Ord(Head(t))

\* x put into an ascending list, after the elements not greater than it
RECURSIVE InsertSorted(_, _)
InsertSorted(x, lines) ==
  IF lines = << >> THEN << x >>
  ELSE IF StrLess(x, Head(lines)) THEN << x >> \o lines
  ELSE << Head(lines) >> \o InsertSorted(x, Tail(lines))

\* list.sort(): the elements in ascending order
RECURSIVE Sorted(_)
Sorted(lines) ==
  IF lines = << >> THEN << >>
  ELSE InsertSorted(lines[Len(lines)], Sorted(SubSeq(lines, 1, Len(lines) - 1)))

\* linear_search: query in file_contents
linear_search(contents, q) == ListContains(contents, q)

\* hash_table_search: query in set(file_contents)
hash_table_search(contents, q) == q \in Range(contents)

\* preprocess(pattern) of boyer_moore_search: the skip dict after the loop
\* has reached index i; a later occurrence of a character overwrites
RECURSIVE preprocess_from(_, _, _)
preprocess_from(pattern, i, skip) ==
  IF i >= Len(pattern) THEN skip
  ELSE preprocess_from(pattern, i + 1,
         (At(pattern, i) :> Max(1, Len(pattern) - i - 1)) @@ skip)

preprocess(pattern) == preprocess_from(pattern, 0, << >>)

\* skip.get(ch, default)
skip_get(skip, ch, default) == IF ch \in DOMAIN skip THEN skip[ch] ELSE default

\* the inner while of boyer_moore_search from (i, j): where it stops, or that
\* text[i] raised IndexError
RECURSIVE bm_compare(_, _, _, _)
bm_compare(text, pattern, i, j) ==
  IF j < 0 THEN [raised |-> FALSE, i |-> i, j |-> j]
  ELSE IF ~InRange(text, i) THEN [raised |-> TRUE, i |-> i, j |-> j]
  ELSE IF At(text, i) = At(pattern, j) THEN bm_compare(text, pattern, i - 1, j - 1)
  ELSE [raised |-> FALSE, i |-> i, j |-> j]

\* kmp_table(pattern) of kmp_search, from loop index i with table and j as
\* they are; "i -= 1" in the body does not change the next value the for
\* statement gives i
RECURSIVE kmp_table_from(_, _, _, _)
kmp_table_from(pattern, table, i, j) ==
  IF i >= Len(pattern) THEN table
  ELSE IF At(pattern, i) = At(pattern, j)
    THEN kmp_table_from(pattern, [table EXCEPT ![i + 1] = j + 1], i + 1, j + 1)
  ELSE IF j # 0
    THEN kmp_table_from(pattern, table, i + 1, table[j])
  ELSE kmp_table_from(pattern, [table EXCEPT ![i + 1] = 0], i + 1, j)

kmp_table(pattern) == kmp_table_from(pattern, [k \in 1..Len(pattern) |-> 0], 1, 0)

Idle == [fn |-> "idle", text |-> 0, i |-> 0, j |-> 0, low |-> 0, high |-> 0]

NoResults == [fn \in Strategies |-> "none"]

\* no benchmark runs
BenchIdle ==
  /\ outcome = "absent"
  /\ algorithms = {}
  /\ bench_contents = << >>
  /\ loaded_contents = << >>
  /\ query = << >>
  /\ call = Idle
  /\ results = NoResults
  /\ earlier = NoResults

\* benchmark_algorithms has read the file and is about to run the strategies
\* algs on the list contents with the query q
BenchInit(algs, contents, q) ==
  /\ outcome = "absent"
  /\ algorithms = algs
  /\ bench_contents = contents
  /\ loaded_contents = contents
  /\ query = q
  /\ call = Idle
  /\ results = NoResults
  /\ earlier = NoResults

\* the strategy fn may be called: func(file_contents, query)
CanCall(fn) ==
  /\ fn \in algorithms
  /\ call = Idle
  /\ results[fn] = "none"

\* the running strategy returns or raises
Return(value) ==
  /\ results' = [results EXCEPT ![call.fn] = value]
  /\ call' = Idle

\* the strategies of the algorithms dict of benchmark_algorithms, in the
\* order of the dict
BenchmarkAlgorithms == << "linear_search", "binary_search", "kmp_search" >>

\* benchmark_algorithms, to the for statement: the file is opened and read,
\* file_contents = file.read().splitlines(). When open() raises
\* FileNotFoundError the except clause of the function prints a message and
\* the function returns None.
BenchmarkOpen ==
  /\ outcome = "called"
  /\ IF disk.exists
       THEN /\ outcome' = "running"
            /\ algorithms' = Range(BenchmarkAlgorithms)
            /\ bench_contents' = splitlines(disk.text)
            /\ loaded_contents' = splitlines(disk.text)
       ELSE /\ outcome' = "None"
            /\ UNCHANGED << algorithms, bench_contents, loaded_contents >>
  /\ UNCHANGED << earlier, query, call, results >>
  /\ UNCHANGED svars

\* "for name, func in algorithms.items()": the k-th strategy is called when
\* the ones before it have returned
BenchmarkTurn(k) ==
  /\ outcome = "running"
  /\ \A h \in 1..(k - 1) : results[BenchmarkAlgorithms[h]] \in {"True", "False"}

\* a strategy raised: the exception is not a FileNotFoundError, it leaves
\* benchmark_algorithms
BenchmarkRaise ==
  /\ outcome = "running"
  /\ call = Idle
  /\ \E fn \in algorithms : results[fn] = "IndexError"
  /\ outcome' = "IndexError"
  /\ UNCHANGED << algorithms, earlier, bench_contents, loaded_contents, query,
                  call, results >>
  /\ UNCHANGED svars

\* the loop is over: the CSV file is written and the dict of timings returned
BenchmarkReturn ==
  /\ BenchmarkTurn(Len(BenchmarkAlgorithms) + 1)
  /\ outcome' = "results"
  /\ UNCHANGED << algorithms, earlier, bench_contents, loaded_contents, query,
                  call, results >>
  /\ UNCHANGED svars

\* __main__: "for name, duration in outcome.items()"; None has no items
MainReport ==
  /\ outcome \in {"results", "None"}
  /\ outcome' = IF outcome = "None" THEN "AttributeError" ELSE "reported"
  /\ UNCHANGED << algorithms, earlier, bench_contents, loaded_contents, query,
                  call, results >>
  /\ UNCHANGED svars

\* the harness is about to call the strategy fn once more, with the same
\* list object and the same query: func(file_contents, query)
CallAgain(fn) ==
  /\ fn \in algorithms
  /\ call = Idle
  /\ results[fn] # "none"
  /\ earlier[fn] = "none"
  /\ earlier' = [earlier EXCEPT ![fn] = results[fn]]
  /\ results' = [results EXCEPT ![fn] = "none"]
  /\ UNCHANGED << outcome, algorithms, bench_contents, loaded_contents, query,
                  call >>
  /\ UNCHANGED svars

\* linear_search(file_contents, query)
CallLinear ==
  /\ CanCall("linear_search")
  /\ results' = [results EXCEPT !["linear_search"] =
                   PyBool(linear_search(bench_contents, query))]
  /\ UNCHANGED << outcome, algorithms, earlier, bench_contents, loaded_contents,
                  query, call >>
  /\ UNCHANGED svars

\* hash_table_search(file_contents, query)
CallHash ==
  /\ CanCall("hash_table_search")
  /\ results' = [results EXCEPT !["hash_table_search"] =
                   PyBool(hash_table_search(bench_contents, query))]
  /\ UNCHANGED << outcome, algorithms, earlier, bench_contents, loaded_contents,
                  query, call >>
  /\ UNCHANGED svars

\* binary_search that trusts its caller to pass a sorted list
CallBinaryUnsorted ==
  /\ CanCall("binary_search")
  /\ call' = [Idle EXCEPT !.fn = "binary_search", !.low = 0,
                          !.high = Len(bench_contents) - 1]
  /\ UNCHANGED << outcome, algorithms, earlier, bench_contents, loaded_contents,
                  query, results >>
  /\ UNCHANGED svars

\* binary_search, to the loop: file_contents.sort() sorts the caller's list
\* in place; low, high = 0, len(file_contents) - 1
CallBinary ==
  /\ CanCall("binary_search")
  /\ bench_contents' = Sorted(bench_contents)
  /\ call' = [Idle EXCEPT !.fn = "binary_search", !.low = 0,
                          !.high = Len(bench_contents) - 1]
  /\ UNCHANGED << outcome, algorithms, earlier, loaded_contents, query,
                  results >>
  /\ UNCHANGED svars

\* binary_search with "while low < high": the last candidate is not compared
BinaryStepExclusive ==
  /\ call.fn = "binary_search"
  /\ IF call.low < call.high
       THEN LET mid == (call.low + call.high) \div 2
            IN  IF At(bench_contents, mid) = query
                  THEN Return("True")
                ELSE IF StrLess(At(bench_contents, mid), query)
                  THEN call' = [call EXCEPT !.low = mid + 1] /\ UNCHANGED results
                ELSE call' = [call EXCEPT !.high = mid - 1] /\ UNCHANGED results
       ELSE Return("False")
  /\ UNCHANGED << outcome, algorithms, earlier, bench_contents, loaded_contents,
                  query >>
  /\ UNCHANGED svars

\* binary_search: one test of "while low <= high" and the body, or the
\* return False after the loop
BinaryStep ==
  /\ call.fn = "binary_search"
  /\ IF call.low <= call.high
       THEN LET mid == (call.low + call.high) \div 2
            IN  IF At(bench_contents, mid) = query
                  THEN Return("True")
                ELSE IF StrLess(At(bench_contents, mid), query)
                  THEN call' = [call EXCEPT !.low = mid + 1] /\ UNCHANGED results
                ELSE call' = [call EXCEPT !.high = mid - 1] /\ UNCHANGED results
       ELSE Return("False")
  /\ UNCHANGED << outcome, algorithms, earlier, bench_contents, loaded_contents,
                  query >>
  /\ UNCHANGED svars

\* kmp_search, to the for statement
CallKmp ==
  /\ CanCall("kmp_search")
  /\ call' = [Idle EXCEPT !.fn = "kmp_search"]
  /\ UNCHANGED << outcome, algorithms, earlier, bench_contents, loaded_contents,
                  query, results >>
  /\ UNCHANGED svars

\* boyer_moore_search, to the for statement (skip = preprocess(pattern))
CallBoyerMoore ==
  /\ CanCall("boyer_moore_search")
  /\ call' = [Idle EXCEPT !.fn = "boyer_moore_search"]
  /\ UNCHANGED << outcome, algorithms, earlier, bench_contents, loaded_contents,
                  query, results >>
  /\ UNCHANGED svars

\* "for text in file_contents" of kmp_search gives the next line (i = j = 0),
\* or the loop is over and the function returns False
KmpNextText ==
  /\ call.fn = "kmp_search"
  /\ IF call.text = 0 THEN TRUE ELSE call.i >= Len(bench_contents[call.text])
  /\ IF call.text < Len(bench_contents)
       THEN call' = [call EXCEPT !.text = @ + 1, !.i = 0, !.j = 0] /\ UNCHANGED results
       ELSE Return("False")
  /\ UNCHANGED << outcome, algorithms, earlier, bench_contents, loaded_contents,
                  query >>
  /\ UNCHANGED svars

\* kmp_search: one pass through the body of "while i < n"
KmpStep ==
  /\ call.fn = "kmp_search"
  /\ call.text # 0
  /\ call.i < Len(bench_contents[call.text])
  /\ LET text == bench_contents[call.text]
         m == Len(query)
         n == Len(text)
         table == kmp_table(query)
         matched == InRange(query, call.j) /\ At(query, call.j) = At(text, call.i)
         i1 == IF matched THEN call.i + 1 ELSE call.i
         j1 == IF matched THEN call.j + 1 ELSE call.j
     IN  IF ~InRange(query, call.j)
           THEN Return("IndexError")
         ELSE IF j1 = m
           THEN Return("True")
         ELSE IF i1 < n /\ At(query, j1) # At(text, i1)
           THEN /\ call' = IF j1 # 0
                             THEN [call EXCEPT !.i = i1, !.j = table[j1]]
                             ELSE [call EXCEPT !.i = i1 + 1, !.j = j1]
                /\ UNCHANGED results
         ELSE call' = [call EXCEPT !.i = i1, !.j = j1] /\ UNCHANGED results
  /\ UNCHANGED << outcome, algorithms, earlier, bench_contents, loaded_contents,
                  query >>
  /\ UNCHANGED svars

\* "for text in file_contents" of boyer_moore_search gives the next line
\* (i = m - 1), or the loop is over and the function returns False
BoyerMooreNextText ==
  /\ call.fn = "boyer_moore_search"
  /\ IF call.text = 0 THEN TRUE ELSE call.i >= Len(bench_contents[call.text])
  /\ IF call.text < Len(bench_contents)
       THEN /\ call' = [call EXCEPT !.text = @ + 1, !.i = Len(query) - 1]
            /\ UNCHANGED results
       ELSE Return("False")
  /\ UNCHANGED << outcome, algorithms, earlier, bench_contents, loaded_contents,
                  query >>
  /\ UNCHANGED svars

\* boyer_moore_search: one pass through the body of "while i < n"
BoyerMooreStep ==
  /\ call.fn = "boyer_moore_search"
  /\ call.text # 0
  /\ call.i < Len(bench_contents[call.text])
  /\ LET text == bench_contents[call.text]
         m == Len(query)
         at == bm_compare(text, query, call.i, m - 1)
     IN  IF at.raised
           THEN Return("IndexError")
         ELSE IF at.j < 0
           THEN Return("True")
         ELSE IF ~InRange(text, at.i)
           THEN Return("IndexError")
         ELSE /\ call' = [call EXCEPT
                            !.i = at.i + skip_get(preprocess(query), At(text, at.i), m),
                            !.j = at.j]
              /\ UNCHANGED results
  /\ UNCHANGED << outcome, algorithms, earlier, bench_contents, loaded_contents,
                  query >>
  /\ UNCHANGED svars

\* one step of the handler thread t
HandlerStep(t) ==
  \/ Recv(t)
  \/ RecvRaise(t)
  \/ ProcessQuery(t)
  \/ Sendall(t)
  \/ SendallRaise(t)
  \/ \E ok \in BOOLEAN : LogQuery(t, ok)
  \/ ExceptLog(t)
  \/ Close(t)

Init == ServerInit /\ BenchIdle

Next ==
  \/ \E d \in DiskStates : Rewrite(d)
  \/ Connect
  \/ \E c \in Conns, raw \in RawQueries : \E k \in 1..Len(raw) : ClientSend(c, raw, k)
  \/ \E c \in Conns : ClientClose(c)
  \/ Accept
  \/ StartThread
  \/ \E t \in Conns : Recv(t)
  \/ \E t \in Conns : RecvRaise(t)
  \/ \E t \in Conns : ProcessQuery(t)
  \/ \E t \in Conns : Sendall(t)
  \/ \E t \in Conns : SendallRaise(t)
  \/ \E t \in Conns, ok \in BOOLEAN : LogQuery(t, ok)
  \/ \E t \in Conns : ExceptLog(t)
  \/ \E t \in Conns : Close(t)

Spec == Init /\ [][Next]_vars

\* ---- the server with ssl_enabled: the listening socket is wrapped, and a
\* client may fail the handshake
InitTls ==
  /\ ssl_enabled = 1
  /\ \E d \in DiskStates : ServerInitOn(d)
  /\ BenchIdle

NextTls ==
  \/ Next
  \/ AcceptRaise

SpecTls == InitTls /\ [][NextTls]_vars

\* ---- the server while the dataset file is also rewritten in place
NextWriter ==
  \/ Next
  \/ \E t \in FileTexts : WriteOpen(t)
  \/ WriteChunk

SpecWriter == Init /\ [][NextWriter]_vars

\* ---- the strategies, run on every small input
\* no Server has been constructed; d is the dataset file
ServerAbsentOn(d) ==
  /\ ssl_enabled = 0
  /\ reread_on_query = 0
  /\ file_contents = [loaded |-> FALSE, lines |-> << >>]
  /\ disk = d
  /\ writer = NoWriter
  /\ reads = [ctor |-> 0, by |-> [t \in Conns |-> 0]]
  /\ startup_disk = Missing
  /\ lpc = "absent"
  /\ conn = 0
  /\ addr = << >>
  /\ nconn = 0
  /\ naccept = 0
  /\ sock = [c \in Conns |-> NoSock]
  /\ threads = << >>

ServerAbsent == ServerAbsentOn(Missing)

\* the equality strategies, called in any order on one list
InitEq ==
  /\ ServerAbsent
  /\ \E contents \in Lists(Strs(MaxLen), MaxLines), q \in Strs(MaxLen) :
       BenchInit(EqualityStrategies, contents, q)

NextEq ==
  \/ CallLinear
  \/ CallHash
  \/ CallBinary
  \/ BinaryStep

SpecEq == InitEq /\ [][NextEq]_vars

\* a line and a pattern with a repeated prefix
LongText == << "a", "b", "a", "a", "b", "a", "a", "a" >>
LongPattern == << "a", "b", "a", "a", "a" >>

\* the substring strategies, called in any order on one list
InitSub ==
  /\ ServerAbsent
  /\ \E contents \in Lists(Strs(MaxTextLen) \cup {LongText}, MaxTextLines),
        q \in Strs(MaxPatternLen) \cup {LongPattern} :
       BenchInit(SubstringStrategies, contents, q)

NextSub ==
  \/ CallKmp
  \/ KmpNextText
  \/ KmpStep
  \/ CallBoyerMoore
  \/ BoyerMooreNextText
  \/ BoyerMooreStep

SpecSub == InitSub /\ [][NextSub]_vars

\* the equality strategies on a list, or a Server constructed on the file
\* that holds the same lines and one client that sends the query
InitBoundary ==
  \E contents \in Lists(Strs(MaxDupLen), MaxDupLines), q \in Strs(MaxDupLen) :
    \/ ServerAbsent /\ BenchInit(EqualityStrategies, contents, q)
    \/ /\ ssl_enabled = 0
       /\ ServerInitOn(File(FileText(contents)))
       /\ BenchInit({}, contents, q)

NextBoundary ==
  \/ NextEq
  \/ nconn = 0 /\ Connect
  \/ ClientSend(1, query \o << "NL" >>, Len(query) + 1)
  \/ ClientClose(1)
  \/ Accept
  \/ StartThread
  \/ HandlerStep(1)

SpecBoundary == InitBoundary /\ [][NextBoundary]_vars

\* the five strategies, called in any order on one list; a strategy that has
\* been called keeps running: the interpreter executes the next statement of
\* the loop it is in
InitTerm ==
  /\ ServerAbsent
  /\ \E contents \in Lists(Strs(MaxLen), MaxLines), q \in Strs(MaxLen) :
       BenchInit(Strategies, contents, q)

NextTerm ==
  \/ NextEq
  \/ NextSub

SpecTerm == InitTerm /\ [][NextTerm]_vars /\ WF_vars(NextTerm)

\* __main__ of benchmark.py: benchmark_algorithms(path, query) on a dataset
\* file that exists or not
InitBench ==
  /\ \E d \in {Missing} \cup {File(FileText(contents)) :
                               contents \in Lists(Strs(MaxLen), MaxLines)} :
       ServerAbsentOn(d)
  /\ outcome = "called"
  /\ algorithms = {}
  /\ bench_contents = << >>
  /\ loaded_contents = << >>
  /\ query \in Strs(MaxLen)
  /\ call = Idle
  /\ results = NoResults
  /\ earlier = NoResults

NextBench ==
  \/ BenchmarkOpen
  \/ BenchmarkTurn(1) /\ CallLinear
  \/ BenchmarkTurn(2) /\ CallBinary
  \/ BinaryStep
  \/ BenchmarkTurn(3) /\ CallKmp
  \/ KmpNextText
  \/ KmpStep
  \/ BenchmarkRaise
  \/ BenchmarkReturn
  \/ MainReport

SpecBench == InitBench /\ [][NextBench]_vars

\* a strategy called twice on one list, binary_search being called on the
\* same list at any time before, between or after
InitRepeat ==
  /\ ServerAbsent
  /\ \E fn \in Strategies,
        contents \in Lists(Strs(MaxRepeatLen), MaxRepeatLines),
        q \in Strs(MaxRepeatLen) :
       BenchInit({fn, "binary_search"}, contents, q)

NextRepeat ==
  \/ NextEq
  \/ NextSub
  \/ \E fn \in Strategies : CallAgain(fn)

SpecRepeat == InitRepeat /\ [][NextRepeat]_vars

\* ======================================================== claims, server
Threads == 1..Len(threads)

Verdict(found) == IF found THEN "STRING EXISTS" ELSE "STRING NOT FOUND"

\* C1: every handler that has finished has sent exactly one response line to
\* its client, whichever path it took (dataset load failure included).
C1_OneResponsePerConnection ==
  \A t \in Threads :
    threads[t].pc = "done" => Len(sock[threads[t].conn].out) = 1

\* C2: conn.close() has been called exactly once when a handler has finished
\* and not before, whichever step failed; a handler that has not finished
\* and is not waiting in recv can always take its next step, so it cannot
\* end anywhere else with the socket open.
C2_ClosedExactlyOnce ==
  \A t \in Threads :
    /\ sock[threads[t].conn].closes = IF threads[t].pc = "done" THEN 1 ELSE 0
    /\ threads[t].pc \notin {"done", "recv"} => ENABLED HandlerStep(t)

\* a handler has finished on the exception path, with nothing sent, and its
\* socket is closed
C2_Witness ==
  \E t \in Threads :
    /\ threads[t].pc = "done"
    /\ threads[t].logged = "error"
    /\ sock[threads[t].conn].out = << >>
    /\ sock[threads[t].conn].closes = 1

\* the dataset process_query consults: the cached snapshot in static mode,
\* the file as it is now in reread-on-query mode
Consulted ==
  IF reread_on_query # 0 THEN splitlines(disk.text) ELSE file_contents.lines

\* C3: whenever process_query returns, it returns "STRING EXISTS" if the
\* query equals a whole line of the dataset consulted and "STRING NOT FOUND"
\* otherwise.
C3_ExactLineMatch ==
  [][\A t \in Conns :
       (ProcessQuery(t) /\ threads'[t].pc = "send") =>
         threads'[t].response =
           Verdict(\E k \in 1..Len(Consulted) : Consulted[k] = threads[t].data)]_vars

\* a query that is a proper substring of a dataset line, and equal to no
\* line, has been answered "STRING NOT FOUND"
C3_Witness ==
  \E t \in Threads :
    /\ threads[t].pc = "send"
    /\ reread_on_query = 0
    /\ threads[t].response = "STRING NOT FOUND"
    /\ \E k \in 1..Len(file_contents.lines) :
         /\ Contains(file_contents.lines[k], threads[t].data)
         /\ file_contents.lines[k] # threads[t].data
    /\ threads[t].data # << >>

\* the file content that decides a query under the reload policy
PolicyView == IF reread_on_query # 0 THEN disk ELSE startup_disk

\* C4: with reread_on_query on, each verdict is computed from the file as it
\* is on disk when the query is processed; with it off, from the file as it
\* was when the Server was constructed, and the query is always answered.
C4_ReloadPolicy ==
  [][\A t \in Conns :
       ProcessQuery(t) =>
         /\ threads'[t].pc = "send" =>
              /\ PolicyView.exists
              /\ threads'[t].response =
                   Verdict(ListContains(splitlines(PolicyView.text), threads[t].data))
         /\ reread_on_query = 0 => threads'[t].pc = "send"]_vars

\* static mode, the file now differs from the one read at construction, and
\* a query has the verdict of the old content, which is not the verdict the
\* content now on disk would give
C4_Witness ==
  \E t \in Threads :
    /\ reread_on_query = 0
    /\ disk # startup_disk
    /\ disk.exists
    /\ threads[t].pc = "send"
    /\ threads[t].response =
         Verdict(ListContains(splitlines(startup_disk.text), threads[t].data))
    /\ threads[t].response #
         Verdict(ListContains(splitlines(disk.text), threads[t].data))

\* C10: every connection accept() has returned and the loop has dispatched
\* has exactly one handler thread, started with that connection's socket and
\* address; the accept loop never waits for a handler: it can start the
\* thread as soon as accept() has returned and accept again as soon as a
\* connection is pending, whatever the handlers are doing.
C10_ListenerDispatch ==
  /\ \A c \in 1..(IF lpc = "spawn" THEN naccept - 1 ELSE naccept) :
       /\ Cardinality({t \in Threads : threads[t].conn = c}) = 1
       /\ \A t \in Threads : threads[t].conn = c => threads[t].addr = AddrOf(c)
  /\ Len(threads) = IF lpc = "spawn" THEN naccept - 1 ELSE naccept
  /\ lpc = "spawn" => ENABLED StartThread
  /\ (lpc = "accept" /\ naccept < nconn) => ENABLED Accept
  /\ Serving => lpc = "accept" \/ lpc = "spawn"

\* the first handler is still waiting in recv for a client that has sent
\* nothing, and a later connection has been accepted, answered and closed
C10_Witness ==
  /\ Len(threads) >= 2
  /\ threads[1].pc = "recv"
  /\ sock[1].arrived = 0 /\ ~sock[1].peer_closed
  /\ \E t \in Threads :
       /\ t > 1
       /\ threads[t].pc = "done"
       /\ Len(sock[threads[t].conn].out) = 1

\* C11: no error raised while accepting a connection ends the accept loop:
\* unless construction failed at startup, the main thread is in the loop of
\* start_server, at accept() or at the dispatch of the connection accepted,
\* so that a connection arriving later is accepted too.
C11_AcceptLoopSurvives ==
  lpc \in {"accept", "spawn", "ctor_failed"}

\* C12: a dataset file that is missing or unreadable never ends the process:
\* in static mode too, the failure of read_file in Server.__init__ is
\* handled and the main thread goes on to serve.
C12_DatasetUnavailableNeverCrashes ==
  lpc # "ctor_failed"

\* C13: the query handle_client passes to process_query is the text received
\* with its trailing whitespace removed and nothing else: leading whitespace
\* is kept.
C13_OnlyTrailingWhitespaceStripped ==
  [][\A t \in Conns :
       (Recv(t) /\ threads'[t].pc = "process") =>
         threads'[t].data = rstrip(decode(Received(sock[threads[t].conn])).text)]_vars

\* the complete dataset views a query processed now may be decided on: the
\* snapshot in static mode; in reread-on-query mode the file on disk, or,
\* while the file is being rewritten, the file as it was before and the
\* file as it will be after
CompleteViews ==
  IF reread_on_query = 0 THEN {file_contents.lines}
  ELSE IF ~writer.active THEN {splitlines(disk.text)}
  ELSE {splitlines(disk.text \o writer.rest)}
         \cup (IF writer.old.exists THEN {splitlines(writer.old.text)} ELSE {})

\* C14: every verdict is the verdict of one complete dataset view, whatever
\* the other handlers and a writer of the file are doing: never that of a
\* file half written.
C14_SingleCompleteView ==
  [][\A t \in Conns :
       (ProcessQuery(t) /\ threads'[t].pc = "send") =>
         \E view \in CompleteViews :
           threads'[t].response = Verdict(ListContains(view, threads[t].data))]_vars

\* C18: Server.file_contents is never modified after construction: in static
\* mode it stays the list read at startup, same lines in the same order, and
\* in reread-on-query mode it stays None, each handler matching against the
\* list its own read_file call returned; and the locals of a handler, its
\* query and its verdict, change by a step of that handler only.
C18_SharedStateSafety ==
  [][/\ file_contents' = file_contents
     /\ file_contents =
          IF reread_on_query = 0 /\ startup_disk.exists
            THEN [loaded |-> TRUE, lines |-> splitlines(startup_disk.text)]
            ELSE [loaded |-> FALSE, lines |-> << >>]
     /\ \A t \in Threads :
          threads'[t] # threads[t] => HandlerStep(t)
     /\ \A t \in Threads :
          (ProcessQuery(t) /\ threads'[t].pc = "send" /\ reread_on_query # 0) =>
            threads'[t].response =
              Verdict(ListContains(read_file(disk).lines, threads[t].data))]_vars

\* static mode: two handlers are between process_query and sendall at the
\* same time, with different queries and different verdicts from the one
\* cached list
C18_Witness ==
  /\ reread_on_query = 0
  /\ Len(threads) >= 2
  /\ threads[1].pc = "send" /\ threads[2].pc = "send"
  /\ threads[1].data # threads[2].data
  /\ threads[1].response # threads[2].response

\* the read_file calls made so far fit the load policy: in static mode one
\* by the constructor and none by a handler; in reread-on-query mode none by
\* the constructor, none by a handler that has not reached process_query,
\* one by a handler that has returned from it, never more than one
ReadsFitPolicy ==
  /\ reads.ctor = IF reread_on_query = 0 THEN 1 ELSE 0
  /\ \A t \in Conns :
       /\ reads.by[t] \in {0, 1}
       /\ (reread_on_query = 0 \/ t \notin Threads) => reads.by[t] = 0
       /\ (reread_on_query # 0 /\ t \in Threads) =>
            /\ threads[t].pc \in {"recv", "process"} => reads.by[t] = 0
            /\ threads[t].pc \in {"send", "log"} => reads.by[t] = 1
            /\ threads[t].logged = "debug" => reads.by[t] = 1

\* C19: in static mode the file is read once, by the constructor, before the
\* first accept, and never again; in reread-on-query mode it is not read by
\* the constructor and is read once for each query handled, in the step
\* between the receipt of the query and its verdict.
C19_LoadTiming ==
  [][/\ ReadsFitPolicy
     /\ ReadsFitPolicy'
     /\ reads'.ctor = reads.ctor
     /\ \A t \in Conns :
          /\ reads'.by[t] # reads.by[t] =>
               /\ reread_on_query # 0
               /\ t \in Threads
               /\ threads[t].pc = "process"
               /\ threads'[t].pc \in {"send", "except"}
               /\ reads'.by[t] = reads.by[t] + 1
          /\ (reread_on_query # 0 /\ ProcessQuery(t)) =>
               reads'.by[t] = reads.by[t] + 1]_vars

\* reread-on-query mode: two queries have been handled, each with one read
\* of the file, and the second read failed
C19_Witness ==
  /\ reread_on_query # 0
  /\ reads.ctor = 0
  /\ Len(threads) >= 2
  /\ reads.by[1] = 1 /\ reads.by[2] = 1
  /\ threads[1].logged = "debug"
  /\ threads[2].pc = "except"

\* the moves of a handler from one statement of handle_client to the next:
\* receive, match, respond, log, close in this order, the except clause from
\* any statement of the try block, and the finally clause after it
HandlerMoves ==
  { << "recv", "process" >>, << "process", "send" >>, << "send", "log" >>,
    << "log", "close" >>, << "close", "done" >>,
    << "recv", "except" >>, << "process", "except" >>, << "send", "except" >>,
    << "log", "except" >>, << "except", "close" >> }

\* C20: a handler goes through receive, match, respond, log, close in this
\* order and never back, so it calls recv at most once and sendall at most
\* once; a response is put on the connection by the sendall step only, at
\* most one per connection; and the query log record is written only after
\* the response was sent.
C20_HandlerStateMachine ==
  [][\A t \in Threads :
       /\ threads'[t].pc # threads[t].pc =>
            << threads[t].pc, threads'[t].pc >> \in HandlerMoves
       /\ Len(sock'[threads[t].conn].out) <= 1
       /\ sock'[threads[t].conn].out # sock[threads[t].conn].out =>
            (threads[t].pc = "send" /\ threads'[t].pc = "log")
       /\ threads'[t].logged = "debug" =>
            (Len(sock'[threads[t].conn].out) = 1 /\ threads'[t].pc \in {"close", "done"})
       /\ threads'[t].logged # threads[t].logged =>
            threads[t].pc \in {"log", "except"}]_vars

\* a handler has gone through all five steps: one response sent, the query
\* logged, the socket closed
C20_Witness ==
  \E t \in Threads :
    /\ threads[t].pc = "done"
    /\ threads[t].logged = "debug"
    /\ Len(sock[threads[t].conn].out) = 1
    /\ sock[threads[t].conn].closes = 1

\* the handler t has failed: it is in its except clause or has logged the
\* error
Failed(t) == threads[t].pc = "except" \/ threads[t].logged = "error"

\* C21: a handler whose step failed retries nothing: from the except clause
\* it goes to close and to its end only, and sends nothing from then on; and
\* the step that fails changes neither the position of the accept loop, nor
\* any other handler, nor any other connection.
C21_FailureIsolation ==
  [][\A t \in Threads :
       /\ (threads[t].pc = "except" /\ threads'[t].pc # "except") =>
            threads'[t].pc = "close"
       /\ Failed(t) =>
            /\ threads'[t].pc \in {"except", "close", "done"}
            /\ threads'[t].data = << >> /\ threads'[t].response = ""
            /\ sock'[threads[t].conn].out = sock[threads[t].conn].out
       /\ (threads[t].pc # "except" /\ threads'[t].pc = "except") =>
            /\ lpc' = lpc
            /\ Serving
            /\ \A u \in Threads \ {t} :
                 /\ threads'[u] = threads[u]
                 /\ sock'[threads[u].conn] = sock[threads[u].conn]]_vars

\* the first handler has failed and ended with nothing sent; the second one,
\* accepted after it, has answered its client, and the loop is at accept()
C21_Witness ==
  /\ Len(threads) >= 2
  /\ threads[1].pc = "done" /\ threads[1].logged = "error"
  /\ sock[1].out = << >>
  /\ threads[2].pc = "done" /\ threads[2].logged = "debug"
  /\ Len(sock[2].out) = 1
  /\ lpc = "accept"

\* C24: the text handed to process_query is the complete query the client
\* sent, framing whitespace removed, however many of its bytes had arrived
\* when recv returned: never a proper prefix of it, and never the empty text
\* of a peer that closed without sending.
C24_WholeQueryMatching ==
  [][\A t \in Threads :
       (threads[t].pc = "recv" /\ threads'[t].pc = "process") =>
         LET s == sock[threads[t].conn]
         IN  /\ ~s.peer_closed
             /\ threads'[t].data = strip(decode(s.raw).text)]_vars

\* ==================================================== claims, strategies
\* whether some line of the list as loaded equals the query
SomeLineEquals == \E k \in 1..Len(loaded_contents) : loaded_contents[k] = query

\* whether some line of the list as loaded contains the query
SomeLineContains ==
  \E k \in 1..Len(loaded_contents) : Contains(loaded_contents[k], query)

Booleans == {"True", "False"}

\* C15: a strategy called again with the same query on the same dataset
\* object, whose lines are those that were loaded, gives what its previous
\* call gave, whether or not binary_search was called on that object before
\* or in between.
C15_Idempotent ==
  \A fn \in Strategies :
    (earlier[fn] # "none" /\ results[fn] # "none") => results[fn] = earlier[fn]

\* how many lines of the list as loaded equal the query
Occurrences == Cardinality({k \in 1..Len(loaded_contents) : loaded_contents[k] = query})

\* C16: on the empty dataset linear_search, binary_search, hash_table_search
\* and process_query report not-found for every query, the empty one
\* included; and a query that equals a line of the dataset is reported found
\* by each of them, however many times and wherever the line occurs.
C16_EqualityBoundaries ==
  /\ \A fn \in EqualityStrategies :
       /\ loaded_contents = << >> => results[fn] \in {"none", "False"}
       /\ Occurrences >= 1 => results[fn] \in {"none", "True"}
  /\ \A t \in Threads :
       threads[t].pc = "send" =>
         /\ read_file(disk).lines = loaded_contents
         /\ loaded_contents = << >> => threads[t].response = "STRING NOT FOUND"
         /\ ListContains(loaded_contents, threads[t].data) =>
              threads[t].response = "STRING EXISTS"

\* the three strategies have returned True for a query that equals the
\* first and the last of three lines and not the one in between
C16_Witness ==
  /\ \A fn \in EqualityStrategies : results[fn] = "True"
  /\ Len(loaded_contents) = 3
  /\ Occurrences = 2
  /\ loaded_contents[2] # query

\* C17: when the file at path does not exist, benchmark_algorithms raises
\* FileNotFoundError to its caller: the call does not end in any other way.
C17_RaisesFileNotFound ==
  ~disk.exists => outcome \in {"called", "FileNotFoundError"}

\* C22: every call of a strategy returns after finitely many steps: a
\* strategy that is running is eventually not running any more.
C22_Termination ==
  (call.fn # "idle") ~> (call.fn = "idle")

\* C23: the strategies are read-only on the dataset: the list the caller
\* passed has the same elements in the same order as when it was loaded,
\* whichever strategies have been called on it.
C23_DatasetReadOnly ==
  bench_contents = loaded_contents

\* the KMP prefix function at index i (from 1): the length of the longest
\* proper prefix of the first i characters of pattern that is also a suffix
\* of them
Border(pattern, i) ==
  CHOOSE k \in 0..(i - 1) :
    /\ SubSeq(pattern, 1, k) = SubSeq(pattern, i - k + 1, i)
    /\ \A l \in (k + 1)..(i - 1) :
         SubSeq(pattern, 1, l) # SubSeq(pattern, i - l + 1, i)

PrefixFunction(pattern) == [i \in 1..Len(pattern) |-> Border(pattern, i)]

\* C25: the table kmp_search builds from the pattern is the KMP prefix
\* function of the pattern: at every index, the length of the longest proper
\* prefix that is also a suffix.
C25_KmpTableIsPrefixFunction ==
  (call.fn = "kmp_search" /\ call.text >= 1) =>
    kmp_table(query) = PrefixFunction(query)

\* C5: on a non-empty dataset, in any order and with duplicates, each of
\* linear_search, hash_table_search and binary_search returns whether the
\* query equals some element of the dataset, so the three agree.
C5_EqualityStrategiesAgree ==
  Len(loaded_contents) > 0 =>
    \A fn \in EqualityStrategies :
      results[fn] \in {"none", PyBool(SomeLineEquals)}

\* the three strategies have returned True on a list that was not sorted
\* when it was loaded
C5_Witness ==
  /\ \A fn \in EqualityStrategies : results[fn] = "True"
  /\ bench_contents # loaded_contents
  /\ Len(loaded_contents) > 1

\* C6: whenever kmp_search and boyer_moore_search have both returned a
\* boolean for the same dataset and query, the two booleans are equal.
C6_SubstringStrategiesAgree ==
  (results["kmp_search"] \in Booleans /\ results["boyer_moore_search"] \in Booleans)
    => results["kmp_search"] = results["boyer_moore_search"]

\* C7: for a non-empty query, kmp_search returns True if and only if some
\* line of the dataset contains the query as a contiguous substring.
C7_KmpIsContainment ==
  (query # << >> /\ results["kmp_search"] # "none")
    => results["kmp_search"] = PyBool(SomeLineContains)

\* C8: for a non-empty query, whenever boyer_moore_search returns, it returns
\* True if and only if some line of the dataset contains the query as a
\* contiguous substring.
C8_BoyerMooreIsContainment ==
  (query # << >> /\ results["boyer_moore_search"] \in Booleans)
    => results["boyer_moore_search"] = PyBool(SomeLineContains)

\* C9: no strategy raises on a dataset of text lines and a query, the empty
\* line, the empty dataset and the empty query included.
C9_NoStrategyRaises ==
  \A fn \in Strategies : results[fn] # "IndexError"

====
